---------------------------- MODULE Spec2Model ----------------------------
(***************************************************************************)
(* A model of src/backend/main.py: the dataset registry, the four HTTP     *)
(* handlers (/datasets, /query, /preview/{name}, /upload-dataset) and the  *)
(* helpers of the query pipeline (get_pandas_query, execute_pandas_query,  *)
(* get_humanized_response, suggest_chart_type).                            *)
(*                                                                         *)
(* Python values are records carrying their runtime type.  A Python str    *)
(* is a sequence of tokens, a whitespace run being a token of its own, so  *)
(* that str.strip, str.endswith and str.rsplit are computed, not assumed.  *)
(* The text-generation backend is an opaque collaborator: each call ends   *)
(* with an answer, an OpenAIError or another exception, chosen freely.     *)
(* Expression evaluation (eval) is an interpreter over the expressions the *)
(* backend is drawn to answer with; an evaluation either returns a value   *)
(* or raises an Exception subclass.                                        *)
(***************************************************************************)
EXTENDS Integers, Sequences, FiniteSets, TLC

\* ------------------------------------------------------------------ bounds

\* The number of HTTP requests a behaviour holds.
MaxRequests == 3

\* ----------------------------------------------------------- Python values

Str(t) == [type |-> "str", val |-> t]
PyInt(n) == [type |-> "int", num |-> n]
PyNone == [type |-> "NoneType"]
PyList(s) == [type |-> "list", elems |-> s]
PyDict(f) == [type |-> "dict", items |-> f]
DataFrame(cols, rows) == [type |-> "DataFrame", columns |-> cols, rows |-> rows]
Series(idx, vals) == [type |-> "Series", index |-> idx, values |-> vals]

\* A local that has not been assigned yet.
Unset == [type |-> "unset"]

\* A one-token text.
T(s) == <<s>>

IsSpace(tok) == tok \in {" ", "\n", "\t"}

RECURSIVE LStrip(_)
LStrip(t) == IF t # <<>> /\ IsSpace(Head(t)) THEN LStrip(Tail(t)) ELSE t

RECURSIVE RStrip(_)
RStrip(t) ==
    IF t # <<>> /\ IsSpace(t[Len(t)]) THEN RStrip(SubSeq(t, 1, Len(t) - 1)) ELSE t

\* str.strip()
Strip(t) == RStrip(LStrip(t))

\* str.endswith(suffix)
EndsWith(t, suffix) ==
    /\ Len(t) >= Len(suffix)
    /\ SubSeq(t, Len(t) - Len(suffix) + 1, Len(t)) = suffix

\* The position of the last "." token, 0 when there is none.
LastDot(t) ==
    IF \E i \in 1..Len(t) : t[i] = "."
    THEN CHOOSE i \in 1..Len(t) :
            /\ t[i] = "."
            /\ \A j \in (i + 1)..Len(t) : t[j] # "."
    ELSE 0

\* str.rsplit(".", 1)[0]
RSplitDotFirst(t) == IF LastDot(t) = 0 THEN t ELSE SubSeq(t, 1, LastDot(t) - 1)

\* The last position of column c in cols (a later duplicate key wins in a dict).
LastPos(cols, c) ==
    CHOOSE i \in 1..Len(cols) :
        /\ cols[i] = c
        /\ \A j \in (i + 1)..Len(cols) : cols[j] # c

\* Building a dict from parallel key and value sequences.
DictOf(keys, vals) ==
    PyDict([k \in {keys[i] : i \in 1..Len(keys)} |-> vals[LastPos(keys, k)]])

\* DataFrame.to_dict(orient="records")
ToDictRecords(df) ==
    PyList([i \in 1..Len(df.rows) |->
                DictOf([j \in 1..Len(df.columns) |-> Str(T(df.columns[j]))],
                       df.rows[i])])

\* Series.to_dict()
SeriesToDict(s) == DictOf(s.index, s.values)

\* key in container  (dict: a key; list: an element)
PyIn(key, v) ==
    IF v.type = "dict" THEN key \in DOMAIN v.items
    ELSE IF v.type = "list" THEN \E i \in 1..Len(v.elems) : v.elems[i] = key
    ELSE FALSE

\* dict.get(key), None when the key is absent.
DictGetOrNone(d, key) == IF key \in DOMAIN d.items THEN d.items[key] ELSE PyNone

\* ----------------------------------------------------------------- strings

ErrEmptyQuery ==
    T("There was an issue processing your request. Please try again later.")
ErrExecution ==
    T("We couldn't process the data at the moment. Please try again later.")
FallbackOpenAI ==
    T("We encountered an issue generating the response. Please try again later.")
FallbackOther ==
    T("We encountered an issue processing your request. Please try again later.")
QueryPlaceholder == T("There was an issue generating the query.")

ErrorKey == Str(T("error"))
KeyValue == Str(T("value"))
KeyChartType == Str(T("chart_type"))
KeyDataPoints == Str(T("data_points"))


\* -------------------------------------------------------------- the tables

\* names of datasets, files and requests
NameCsgo == T("csgo")
NameTwitch == T("twitch")
NameMaps == T("maps")
NameGhost == T("ghost")

CsgoTable ==
    DataFrame(<<"map", "kills">>,
              << <<Str(T("Dust2")), PyInt(10)>>, <<Str(T("Mirage")), PyInt(7)>> >>)

TwitchTable ==
    DataFrame(<<"channel", "viewers">>, << <<Str(T("esl")), PyInt(5)>> >>)

\* The registry after the module is imported: a dict, kept in insertion order.
InitialDatasets ==
    << [name |-> NameCsgo, table |-> CsgoTable],
       [name |-> NameTwitch, table |-> TwitchTable] >>

\* dataset_name in datasets
DictHas(d, k) == \E i \in 1..Len(d) : d[i].name = k

\* datasets[dataset_name]; a missing key raises a KeyError.
DictGet(d, k) ==
    IF DictHas(d, k)
    THEN [raised |-> FALSE, value |-> (CHOOSE e \in {d[i] : i \in 1..Len(d)} : e.name = k).table]
    ELSE [raised |-> TRUE, value |-> Unset]

\* datasets[dataset_name] = data: replaces in place, or appends a new key.
DictSet(d, k, v) ==
    IF DictHas(d, k)
    THEN [i \in 1..Len(d) |-> IF d[i].name = k THEN [name |-> k, table |-> v] ELSE d[i]]
    ELSE Append(d, [name |-> k, table |-> v])

\* list(datasets.keys())
DictKeys(d) == [i \in 1..Len(d) |-> d[i].name]

\* ------------------------------------------------------- uploaded files

FileCsgo == <<"csgo", ".", "csv">>
FileMaps == <<"maps", ".", "csv">>
FileMapsV2 == <<"maps", ".", "v2", ".", "csv">>
FileNotes == <<"notes", ".", "txt">>
FileNames == {FileCsgo, FileMaps, FileMapsV2, FileNotes}

ContentA ==
    [header |-> <<"error", "count">>, rows |-> << <<Str(T("timeout")), PyInt(3)>> >>]
ContentB ==
    [header |-> <<"error", "count">>, rows |-> << <<Str(T("refused")), PyInt(1)>> >>]
ContentEmpty == [header |-> <<>>, rows |-> <<>>]
FileContents == {ContentA, ContentB, ContentEmpty}

Raise == [raised |-> TRUE, value |-> Unset]
Ret(v) == [raised |-> FALSE, value |-> v]

\* pd.read_csv(file.file): the first line names the columns; a file with no
\* columns raises EmptyDataError.
ReadCsv(content) ==
    IF content.header = <<>> THEN Raise ELSE Ret(DataFrame(content.header, content.rows))

\* ------------------------------------------------- expression evaluation

HasCol(df, c) == \E i \in 1..Len(df.columns) : df.columns[i] = c

\* df[c] for a column the table has: a Series over the row positions 0..n-1.
ColumnOf(df, c) ==
    Series([i \in 1..Len(df.rows) |-> PyInt(i - 1)],
           [i \in 1..Len(df.rows) |-> df.rows[i][LastPos(df.columns, c)]])

RECURSIVE SumInts(_)
SumInts(vals) == IF vals = <<>> THEN 0 ELSE Head(vals).num + SumInts(Tail(vals))

ExprSum == T("df['kills'].sum()")
ExprDf == T("df")
ExprCol == T("df['kills']")
ExprRow == T("df.iloc[0]")
ExprSyntaxError == T("df.kills.mean(")

\* eval(pandas_query, {"df": data, "pd": pd})
PandasEval(expr, df) ==
    CASE expr = ExprDf -> Ret(df)
      [] expr = ExprCol ->
            IF HasCol(df, "kills") THEN Ret(ColumnOf(df, "kills")) ELSE Raise
      [] expr = ExprSum ->
            IF HasCol(df, "kills")
            THEN Ret(PyInt(SumInts(ColumnOf(df, "kills").values)))
            ELSE Raise
      [] expr = ExprRow ->
            IF df.rows # <<>>
            THEN Ret(Series([j \in 1..Len(df.columns) |-> Str(T(df.columns[j]))],
                            df.rows[1]))
            ELSE Raise
      [] OTHER -> Raise

ChartFull == T("{'chart_type': 'bar', 'data_points': [10, 7]}")
ChartNone == T("{'chart_type': None, 'data_points': None}")
ChartJsonNull == T("{\"chart_type\": null, \"data_points\": null}")
ChartPartial == T("{'chart_type': 'bar'}")
ChartExtra == T("{'chart_type': 'bar', 'data_points': [10, 7], 'title': 'Kills'}")
ChartList == T("[10, 7]")
ChartPyNone == T("None")
ChartProse == T("No chart is needed.")
ChartLocal == T("result_dict")

Bar == Str(T("bar"))
Points == PyList(<<PyInt(10), PyInt(7)>>)

\* eval(suggestion): evaluated in the scope of suggest_chart_type, whose local
\* result_dict the expression can name.
ChartEval(expr, result_dict) ==
    CASE expr = ChartFull -> Ret(PyDict(KeyChartType :> Bar @@ KeyDataPoints :> Points))
      [] expr = ChartNone -> Ret(PyDict(KeyChartType :> PyNone @@ KeyDataPoints :> PyNone))
      [] expr = ChartPartial -> Ret(PyDict(KeyChartType :> Bar))
      [] expr = ChartExtra ->
            Ret(PyDict(KeyChartType :> Bar @@ KeyDataPoints :> Points
                       @@ Str(T("title")) :> Str(T("Kills"))))
      [] expr = ChartList -> Ret(Points)
      [] expr = ChartPyNone -> Ret(PyNone)
      [] expr = ChartLocal -> Ret(result_dict)
      [] OTHER -> Raise

\* ------------------------------------------------ the text-generation backend

Ok(content) == [kind |-> "ok", content |-> content]
\* openai.error.OpenAIError: the backend answered with an error, or was not reached.
OpenAIError == [kind |-> "OpenAIError", content |-> <<>>]
\* Any other exception of the call: a response without choices[0].message.content.
Malformed == [kind |-> "Exception", content |-> <<>>]

\* The value of a local that holds a call's outcome before the call is made.
NoCall == [kind |-> "none", content |-> <<>>]

SynthesisOutcomes ==
    {Ok(c) : c \in {ExprSum, <<" ", "df", "\n">>, ExprCol, ExprRow, ExprSyntaxError,
                    <<>>, <<" ">>}}
    \cup {OpenAIError, Malformed}

HumanizerOutcomes ==
    {Ok(c) : c \in {<<" ", "The answer, in plain words.", "\n">>, <<" ">>}}
    \cup {OpenAIError, Malformed}

ChartOutcomes ==
    {Ok(c) : c \in {ChartFull, <<ChartNone[1], "\n">>, ChartJsonNull, ChartPartial,
                    ChartExtra, ChartList, ChartPyNone, ChartProse, ChartLocal}}
    \cup {OpenAIError, Malformed}

\* os.getenv('OPENAI_API_KEY')
ApiKeys == {PyNone, Str(T("sk-test"))}

\* not openai.api_key
ApiKeyMissing(key) == key = PyNone \/ key = Str(<<>>)

\* ------------------------------------------------------------ the helpers

get_pandas_query(api_key, outcome) ==
    IF ApiKeyMissing(api_key) THEN <<>>
    ELSE IF outcome.kind = "ok" THEN Strip(outcome.content)
    ELSE <<>>

ErrorDict(msg) == PyDict(ErrorKey :> Str(msg))

\* A normalisation that knows tables only: a single column is boxed as a scalar.
NormalizeTablesOnly(result) ==
    IF result.type = "DataFrame" THEN ToDictRecords(result)
    ELSE PyDict(KeyValue :> result)

\* The normalisation of an evaluated value by its type.
Normalize(result) ==
    IF result.type = "DataFrame" THEN ToDictRecords(result)
    ELSE IF result.type = "Series" THEN SeriesToDict(result)
    ELSE PyDict(KeyValue :> result)

execute_pandas_query(pandas_query, data) ==
    IF pandas_query = <<>> THEN ErrorDict(ErrEmptyQuery)
    ELSE IF PandasEval(pandas_query, data).raised THEN ErrorDict(ErrExecution)
    ELSE Normalize(PandasEval(pandas_query, data).value)

\* Lines 101-102: the result the humanizer describes; result_dict["error"] on a
\* list raises TypeError.
HumanizerResult(result_dict) ==
    IF PyIn(ErrorKey, result_dict)
    THEN IF result_dict.type = "dict"
         THEN Ret(PyDict(KeyValue :> result_dict.items[ErrorKey]))
         ELSE Raise
    ELSE Ret(result_dict)

\* The prompt of the humanizer's backend call, Unset when no call is made.
HumanizerPrompt(api_key, user_query, pandas_query, result_dict) ==
    IF ApiKeyMissing(api_key) \/ HumanizerResult(result_dict).raised THEN Unset
    ELSE [type |-> "prompt", user_query |-> user_query, pandas_query |-> pandas_query,
          result |-> HumanizerResult(result_dict).value]

\* A humanizer with one fallback for every failure.
get_humanized_response_one_fallback(api_key, user_query, pandas_query, result_dict, outcome) ==
    IF ApiKeyMissing(api_key) THEN FallbackOpenAI
    ELSE IF HumanizerResult(result_dict).raised THEN FallbackOpenAI
    ELSE IF outcome.kind = "ok" THEN Strip(outcome.content)
    ELSE FallbackOpenAI

get_humanized_response(api_key, user_query, pandas_query, result_dict, outcome) ==
    IF ApiKeyMissing(api_key) THEN FallbackOther
    ELSE IF HumanizerResult(result_dict).raised THEN FallbackOther
    ELSE IF outcome.kind = "ok" THEN Strip(outcome.content)
    ELSE IF outcome.kind = "OpenAIError" THEN FallbackOpenAI
    ELSE FallbackOther

EmptySuggestion == PyDict(KeyChartType :> PyNone @@ KeyDataPoints :> PyNone)

suggest_chart_type(api_key, user_query, pandas_query, result_dict, outcome) ==
    IF ApiKeyMissing(api_key) THEN EmptySuggestion
    ELSE IF outcome.kind # "ok" THEN EmptySuggestion
    ELSE IF ChartEval(Strip(outcome.content), result_dict).raised THEN EmptySuggestion
    ELSE ChartEval(Strip(outcome.content), result_dict).value

\* ------------------------------------------------------------- responses

HTTPException(status_code, detail) ==
    [type |-> "response", status |-> status_code, body |-> [detail |-> detail]]

\* A handler's return value, sent with status 200.
Returned(body) == [type |-> "response", status |-> 200, body |-> body]

\* An exception no handler catches: the framework answers 500.
Unhandled == HTTPException(500, T("Internal Server Error"))

DatasetNotFound == HTTPException(404, T("Dataset not found"))

\* Lines 235-237: whatever the try block of upload_dataset raises is answered 500.
UploadExcept(raisedInTry) ==
    HTTPException(500, T("An error occurred while processing the dataset."))

\* Lines 146-154; chart_suggestion.get raises AttributeError on a value that is
\* no mapping.
Envelope(pandas_query, result_dict, humanized_text, chart_suggestion) ==
    IF chart_suggestion.type # "dict" THEN Unhandled
    ELSE Returned([query |-> IF pandas_query # <<>> THEN pandas_query
                             ELSE QueryPlaceholder,
                   result |-> result_dict,
                   humanized_response |-> humanized_text,
                   visualization |->
                       [chart_type |-> DictGetOrNone(chart_suggestion, KeyChartType),
                        data_points |-> DictGetOrNone(chart_suggestion, KeyDataPoints)]])

\* The dtype pandas gives a column: int64 when every cell is an integer.
Dtype(df, j) ==
    IF \A i \in 1..Len(df.rows) : df.rows[i][j].type = "int" THEN "int64" ELSE "object"

RECURSIVE JoinLines(_)
JoinLines(lines) ==
    IF lines = <<>> THEN <<>>
    ELSE IF Len(lines) = 1 THEN lines[1]
    ELSE lines[1] \o <<"\n">> \o JoinLines(Tail(lines))

\* Lines 194-210.
PreviewBody(dataset_name, df) ==
    [dataset_name |-> dataset_name,
     columns_summary |->
        <<"The dataset '">> \o dataset_name
        \o <<"' contains the following columns:", "\n">>
        \o JoinLines([j \in 1..Len(df.columns) |->
                        <<"'", df.columns[j], "' (type: ", Dtype(df, j), ")">>])
        \o <<"\n", "\n",
             "You can query these columns for analysis or visualization.">>,
     columns |-> df.columns]

\* ------------------------------------------------------------------ state

VARIABLES
    datasets,   \* the registry: the module-level dict
    api_key,    \* the OPENAI_API_KEY of the process's environment
    reqs,       \* each request: its handler's position and locals
    running,    \* the request whose handler holds the event loop, 0 when none
    uploads     \* history: the uploads answered "uploaded successfully", in order

vars == <<datasets, api_key, reqs, running, uploads>>

Requests == 1..MaxRequests

QueryNames == {NameCsgo, NameMaps, NameGhost}
UserQueries == {T("total kills")}

NotEvaluated == Ret(Unset)

Idle ==
    [kind |-> "none", pc |-> "new", dataset_name |-> <<>>, user_query |-> <<>>,
     filename |-> <<>>, content |-> ContentEmpty, data |-> Unset,
     pandas_query |-> <<>>, evaluated |-> NotEvaluated, result_dict |-> Unset,
     prompt |-> Unset, humanizer |-> NoCall, humanized_text |-> <<>>,
     chart_answer |-> NoCall, chart_suggestion |-> Unset, steps |-> <<>>,
     response |-> Unset]

Closed == [Idle EXCEPT !.pc = "closed"]

\* A handler that awaits between the name check and the insertion of an upload
\* gives the event loop to the other handlers there.
LoopFreeAwaitBeforeInsert(id) ==
    IF running \in {0, id} THEN TRUE ELSE reqs[running].pc = "insert"

\* The handlers are coroutines that never await (the backend calls, read_csv
\* and eval all block), so the event loop runs one handler at a time, to its end.
LoopFree(id) == running \in {0, id}

\* Requests are accepted in the order of their numbers.
NextToAccept(id) ==
    /\ reqs[id].pc = "new"
    /\ \A j \in Requests : j < id => reqs[j].pc # "new"

Init ==
    /\ datasets = InitialDatasets
    /\ api_key \in ApiKeys
    /\ reqs = [id \in Requests |-> Idle]
    /\ running = 0
    /\ uploads = <<>>

Accept(id, r) ==
    /\ NextToAccept(id)
    /\ LoopFree(id)
    /\ reqs' = [reqs EXCEPT ![id] = r]
    /\ running' = id
    /\ UNCHANGED <<datasets, api_key, uploads>>

\* The handler of request id moves to record r.
Step(id, r) ==
    /\ reqs' = [reqs EXCEPT ![id] = r]
    /\ UNCHANGED <<datasets, api_key, running, uploads>>

Finish(r, response) == [r EXCEPT !.pc = "done", !.response = response]

At(id, kind, pc) ==
    /\ reqs[id].kind = kind
    /\ reqs[id].pc = pc
    /\ LoopFree(id)

\* --------------------------------------------------------- GET /datasets

StartDatasets(id) == Accept(id, [Idle EXCEPT !.kind = "datasets", !.pc = "list"])

get_datasets(id) ==
    /\ At(id, "datasets", "list")
    /\ Step(id, Finish(reqs[id], Returned([datasets |-> DictKeys(datasets)])))

\* ------------------------------------------------------------ POST /query

StartQuery(id) ==
    \E name \in QueryNames, q \in UserQueries :
        Accept(id, [Idle EXCEPT !.kind = "query", !.pc = "lookup",
                                !.dataset_name = name, !.user_query = q])

\* A lookup that rejects only the empty name.
NotInDatasetsEmptyOnly(d, name) == name = <<>>

\* Lines 133 and 186: dataset_name not in datasets
NotInDatasets(d, name) == ~DictHas(d, name)

\* A pipeline that stops describing a result once execution has failed.
PipelineNextEarlyExit(step, r) ==
    CASE step = "synthesize" -> "execute"
      [] step = "execute" ->
            IF PyIn(ErrorKey, r.result_dict) THEN "assemble" ELSE "humanize"
      [] step = "humanize" -> "suggest_chart"
      [] step = "suggest_chart" -> "assemble"

\* Lines 139-146: of the pipeline, the step that follows `step`.
PipelineNext(step, r) ==
    CASE step = "synthesize" -> "execute"
      [] step = "execute" -> "humanize"
      [] step = "humanize" -> "suggest_chart"
      [] step = "suggest_chart" -> "assemble"

\* The record of a request whose step `step` has run and left record r.
Ran(step, r) ==
    [r EXCEPT !.steps = Append(r.steps, step), !.pc = PipelineNext(step, r)]

\* Lines 133-137.
QueryLookup(id) ==
    /\ At(id, "query", "lookup")
    /\ LET r == reqs[id]
           data == DictGet(datasets, r.dataset_name)
       IN  Step(id, IF NotInDatasets(datasets, r.dataset_name)
                    THEN Finish(r, DatasetNotFound)
                    ELSE IF data.raised THEN Finish(r, Unhandled)
                    ELSE [r EXCEPT !.data = data.value, !.pc = "synthesize"])

\* Line 139.
Synthesize(id) ==
    /\ At(id, "query", "synthesize")
    /\ \E outcome \in SynthesisOutcomes :
        Step(id, Ran("synthesize",
                     [reqs[id] EXCEPT !.pandas_query = get_pandas_query(api_key, outcome)]))

\* Line 140.
Execute(id) ==
    /\ At(id, "query", "execute")
    /\ LET r == reqs[id]
       IN  Step(id, Ran("execute",
                        [r EXCEPT !.evaluated =
                                      IF r.pandas_query = <<>> THEN NotEvaluated
                                      ELSE PandasEval(r.pandas_query, r.data),
                                  !.result_dict =
                                      execute_pandas_query(r.pandas_query, r.data)]))

\* Line 141.
Humanize(id) ==
    /\ At(id, "query", "humanize")
    /\ \E outcome \in HumanizerOutcomes :
        LET r == reqs[id]
        IN  Step(id, Ran("humanize",
                         [r EXCEPT !.prompt =
                                       HumanizerPrompt(api_key, r.user_query,
                                                       r.pandas_query, r.result_dict),
                                   !.humanizer = outcome,
                                   !.humanized_text =
                                       get_humanized_response(api_key, r.user_query,
                                                              r.pandas_query,
                                                              r.result_dict, outcome)]))

\* Line 144.
SuggestChart(id) ==
    /\ At(id, "query", "suggest_chart")
    /\ \E outcome \in ChartOutcomes :
        LET r == reqs[id]
        IN  Step(id, Ran("suggest_chart",
                         [r EXCEPT !.chart_answer = outcome,
                                   !.chart_suggestion =
                                       suggest_chart_type(api_key, r.user_query,
                                                          r.pandas_query,
                                                          r.result_dict, outcome)]))

\* Lines 146-154.
Assemble(id) ==
    /\ At(id, "query", "assemble")
    /\ LET r == reqs[id]
       IN  Step(id, Finish([r EXCEPT !.steps = Append(r.steps, "assemble")],
                           Envelope(r.pandas_query, r.result_dict, r.humanized_text,
                                    r.chart_suggestion)))

\* ------------------------------------------------ GET /preview/{dataset_name}

StartPreview(id) ==
    \E name \in QueryNames :
        Accept(id, [Idle EXCEPT !.kind = "preview", !.pc = "lookup",
                                !.dataset_name = name])

\* Lines 184-217; describing the columns of a loaded table raises nothing.
preview_dataset(id) ==
    /\ At(id, "preview", "lookup")
    /\ LET r == reqs[id]
           data == DictGet(datasets, r.dataset_name)
       IN  Step(id, IF NotInDatasets(datasets, r.dataset_name)
                    THEN Finish(r, DatasetNotFound)
                    ELSE IF data.raised THEN Finish(r, Unhandled)
                    ELSE Finish([r EXCEPT !.data = data.value],
                                Returned(PreviewBody(r.dataset_name, data.value))))

\* ---------------------------------------------------- POST /upload-dataset

StartUpload(id) ==
    \E f \in FileNames, c \in FileContents :
        Accept(id, [Idle EXCEPT !.kind = "upload", !.pc = "check_extension",
                                !.filename = f, !.content = c])

\* Lines 222-223.
UploadCheckExtension(id) ==
    /\ At(id, "upload", "check_extension")
    /\ LET r == reqs[id]
       IN  Step(id, IF ~EndsWith(r.filename, <<".", "csv">>)
                    THEN Finish(r, HTTPException(400, T("Only CSV files are supported.")))
                    ELSE [r EXCEPT !.pc = "read_csv"])

\* Lines 226-228.
UploadReadCsv(id) ==
    /\ At(id, "upload", "read_csv")
    /\ LET r == reqs[id]
           data == ReadCsv(r.content)
       IN  Step(id, IF data.raised THEN Finish(r, UploadExcept("EmptyDataError"))
                    ELSE [r EXCEPT !.data = data.value,
                                   !.dataset_name = RSplitDotFirst(r.filename),
                                   !.pc = "check_name"])

\* Lines 229-230: the HTTPException is raised inside the try block.
UploadCheckName(id) ==
    /\ At(id, "upload", "check_name")
    /\ LET r == reqs[id]
       IN  Step(id, IF DictHas(datasets, r.dataset_name)
                    THEN Finish(r, UploadExcept(
                             HTTPException(400, T("A dataset with this name already exists."))))
                    ELSE [r EXCEPT !.pc = "insert"])

\* Lines 232-234.
UploadInsert(id) ==
    /\ At(id, "upload", "insert")
    /\ LET r == reqs[id]
       IN  /\ datasets' = DictSet(datasets, r.dataset_name, r.data)
           /\ uploads' = Append(uploads, [name |-> r.dataset_name, table |-> r.data])
           /\ reqs' = [reqs EXCEPT ![id] =
                         Finish(r, Returned(
                             [message |-> <<"Dataset '">> \o r.dataset_name
                                          \o <<"' uploaded successfully.">>,
                              dataset_name |-> r.dataset_name]))]
           /\ UNCHANGED <<api_key, running>>

\* ------------------------------------------------------------- the server

\* The response is sent and the connection closed; the event loop is free.
Respond(id) ==
    /\ reqs[id].pc = "done"
    /\ LoopFree(id)
    /\ reqs' = [reqs EXCEPT ![id] = Closed]
    /\ running' = 0
    /\ UNCHANGED <<datasets, api_key, uploads>>

Next ==
    \E id \in Requests :
        \/ StartDatasets(id)
        \/ get_datasets(id)
        \/ StartQuery(id)
        \/ QueryLookup(id)
        \/ Synthesize(id)
        \/ Execute(id)
        \/ Humanize(id)
        \/ SuggestChart(id)
        \/ Assemble(id)
        \/ StartPreview(id)
        \/ preview_dataset(id)
        \/ StartUpload(id)
        \/ UploadCheckExtension(id)
        \/ UploadReadCsv(id)
        \/ UploadCheckName(id)
        \/ UploadInsert(id)
        \/ Respond(id)

Spec == Init /\ [][Next]_vars

\* ----------------------------------------------------------------- claims

PipelineSteps == <<"synthesize", "execute", "humanize", "suggest_chart", "assemble">>

Has(steps, step) == \E i \in 1..Len(steps) : steps[i] = step

\* The requests of one kind.
Of(kind) == {id \in Requests : reqs[id].kind = kind}

EnvelopeFields == {"query", "result", "humanized_response", "visualization"}

\* C1: every /query request on a dataset of the registry ends with status 200
\* and an envelope of the four fields query, result, humanized_response and
\* visualization{chart_type, data_points}, whatever the backend calls and the
\* evaluation did.
C1_AlwaysEnvelope ==
    \A id \in Of("query") :
        LET r == reqs[id]
        IN  (r.pc = "done" /\ DictHas(datasets, r.dataset_name)) =>
                /\ r.response.status = 200
                /\ DOMAIN r.response.body = EnvelopeFields
                /\ DOMAIN r.response.body.visualization = {"chart_type", "data_points"}

\* C2: a /query or /preview request that names a dataset the registry does not
\* hold ends with 404 "Dataset not found", and of a /query request no pipeline
\* step has started: no step ran and no local of the pipeline is assigned.
C2_NotFoundBeforePipeline ==
    \A id \in Of("query") \cup Of("preview") :
        LET r == reqs[id]
        IN  /\ (r.pc = "done" /\ ~DictHas(datasets, r.dataset_name)) =>
                    /\ r.response = HTTPException(404, T("Dataset not found"))
                    /\ r.steps = <<>>
                    /\ r.data = Unset
                    /\ r.result_dict = Unset
                    /\ r.prompt = Unset
                    /\ r.chart_suggestion = Unset
            /\ (r.pc # "new" /\ ~DictHas(datasets, r.dataset_name)) => r.steps = <<>>

C2_Witness ==
    \E id \in Of("query") :
        /\ reqs[id].pc = "done"
        /\ reqs[id].dataset_name = NameGhost
        /\ reqs[id].response.status = 404

\* C3: a /query request on a known dataset runs synthesize, execute, humanize,
\* suggest_chart and assemble once each, in that order; a step works on the
\* values the earlier steps left, degraded or not; and a request ends without
\* the five steps only by the dataset-not-found answer.
C3_FixedOrder ==
    \A id \in Of("query") :
        LET r == reqs[id]
        IN  /\ r.pc \in {"lookup", "synthesize"} => r.steps = <<>>
            /\ r.pc = "execute" => r.steps = SubSeq(PipelineSteps, 1, 1)
            /\ r.pc = "humanize" => r.steps = SubSeq(PipelineSteps, 1, 2)
            /\ r.pc = "suggest_chart" => r.steps = SubSeq(PipelineSteps, 1, 3)
            /\ r.pc = "assemble" => r.steps = SubSeq(PipelineSteps, 1, 4)
            /\ r.pc = "done" =>
                    \/ r.steps = PipelineSteps
                    \/ /\ r.steps = <<>>
                       /\ r.response.status = 404
                       /\ ~DictHas(datasets, r.dataset_name)
            /\ (r.pc = "done" /\ r.steps = PipelineSteps) =>
                    /\ r.pandas_query = <<>> => r.result_dict = ErrorDict(ErrEmptyQuery)
                    /\ r.prompt # Unset =>
                            /\ r.prompt.pandas_query = r.pandas_query
                            /\ r.prompt.user_query = r.user_query
                            /\ ~PyIn(ErrorKey, r.result_dict) =>
                                   r.prompt.result = r.result_dict
                    /\ r.response.status = 200 =>
                            /\ r.response.body.result = r.result_dict
                            /\ r.response.body.humanized_response = r.humanized_text
                            /\ r.response.body.query \in {r.pandas_query, QueryPlaceholder}

\* A request whose synthesis failed and whose later steps all ran.
C3_Witness ==
    \E id \in Of("query") :
        /\ reqs[id].pc = "done"
        /\ reqs[id].pandas_query = <<>>
        /\ reqs[id].steps = PipelineSteps
        /\ reqs[id].humanized_text = FallbackOpenAI
        /\ reqs[id].response.status = 200

\* C4: when the synthesis step yields the empty query, the execution step
\* returns the fixed "issue processing your request" error without evaluating
\* anything, and the humanized_response of the request is a non-empty string
\* whatever the humanizer's backend call did.
C4_EmptyQuerySoftFailure ==
    \A id \in Of("query") :
        LET r == reqs[id]
        IN  /\ (Has(r.steps, "execute") /\ r.pandas_query = <<>>) =>
                    /\ r.result_dict = ErrorDict(ErrEmptyQuery)
                    /\ r.evaluated = NotEvaluated
            /\ (Has(r.steps, "humanize") /\ r.pandas_query = <<>>) =>
                    r.humanized_text # <<>>
            /\ (r.pc = "done" /\ r.steps = PipelineSteps /\ r.pandas_query = <<>>
                    /\ r.response.status = 200) =>
                    r.response.body.humanized_response # <<>>

\* What the backend's chart answer evaluates to, for a request whose chart
\* step has run with the credential present.
ChartAnswerValue(r) == ChartEval(Strip(r.chart_answer.content), r.result_dict)

\* The answer is an object with exactly the keys chart_type and data_points.
ExactSchema(r) ==
    /\ ~ApiKeyMissing(api_key)
    /\ r.chart_answer.kind = "ok"
    /\ ~ChartAnswerValue(r).raised
    /\ ChartAnswerValue(r).value.type = "dict"
    /\ DOMAIN ChartAnswerValue(r).value.items = {KeyChartType, KeyDataPoints}

\* C5: suggest_chart_type returns the empty suggestion (None, None) for every
\* backend failure and every answer that is not exactly an object with the
\* keys chart_type and data_points, and the envelope's visualization is never
\* a partial or malformed suggestion.
C5_ExactSchemaOrEmpty ==
    \A id \in Of("query") :
        LET r == reqs[id]
        IN  /\ (Has(r.steps, "suggest_chart") /\ ~ExactSchema(r)) =>
                    r.chart_suggestion = EmptySuggestion
            /\ (r.pc = "done" /\ r.steps = PipelineSteps /\ ~ExactSchema(r)) =>
                    /\ r.response.status = 200
                    /\ r.response.body.visualization =
                           [chart_type |-> PyNone, data_points |-> PyNone]

DuplicateName == HTTPException(400, T("A dataset with this name already exists."))

\* C6: an upload of a .csv file whose derived name the registry already holds
\* is answered 400 "A dataset with this name already exists." and leaves the
\* registry as it was.
C6_DuplicateRejected ==
    [][\A id \in Requests :
          (/\ reqs[id].kind = "upload"
           /\ reqs[id].pc = "check_name"
           /\ DictHas(datasets, reqs[id].dataset_name)
           /\ reqs'[id].pc = "done")
          => (reqs'[id].response = DuplicateName /\ datasets' = datasets)]_vars

\* The humanizer's backend call failed: no credential, or the call raised.
HumanizerFailed(r) == ApiKeyMissing(api_key) \/ r.humanizer.kind # "ok"

\* C7 as stated: on any failure of its backend call get_humanized_response
\* returns the fallback "We encountered an issue generating the response.
\* Please try again later.".
C7_OneFallback ==
    \A id \in Of("query") :
        LET r == reqs[id]
        IN  (Has(r.steps, "humanize") /\ HumanizerFailed(r)) =>
                r.humanized_text = FallbackOpenAI

\* C7, amended: get_humanized_response always returns a string; when the
\* backend call raises an OpenAIError it returns the fallback "... issue
\* generating the response ...", and on every other failure (no credential, a
\* malformed response) the fallback "We encountered an issue processing your
\* request. Please try again later.".
C7_TwoFallbacks ==
    \A id \in Of("query") :
        LET r == reqs[id]
        IN  (Has(r.steps, "humanize") /\ HumanizerFailed(r)) =>
                r.humanized_text =
                    IF ~ApiKeyMissing(api_key) /\ r.humanizer.kind = "OpenAIError"
                    THEN FallbackOpenAI
                    ELSE FallbackOther

C7_Witness ==
    \E id \in Of("query") :
        /\ Has(reqs[id].steps, "humanize")
        /\ ~ApiKeyMissing(api_key)
        /\ reqs[id].humanizer.kind = "Exception"
        /\ reqs[id].humanized_text = FallbackOther

InitialNames == {InitialDatasets[i].name : i \in 1..Len(InitialDatasets)}

\* C8: the name check and the insertion of an upload act as one insert-if-
\* absent step: no two successful uploads share a name or take the name of a
\* dataset loaded at start, every table stored is the one the registry still
\* holds under its name (none is ever replaced), and every successful upload
\* is in the registry.
C8_AtomicInsertIfAbsent ==
    /\ \A i, j \in 1..Len(uploads) : i # j => uploads[i].name # uploads[j].name
    /\ \A i \in 1..Len(uploads) :
            /\ uploads[i].name \notin InitialNames
            /\ DictGet(datasets, uploads[i].name) = Ret(uploads[i].table)
    /\ Len(datasets) = Len(InitialDatasets) + Len(uploads)
    /\ \A i \in 1..Len(InitialDatasets) : datasets[i] = InitialDatasets[i]
    /\ \A i, j \in 1..Len(datasets) : i # j => datasets[i].name # datasets[j].name

\* Two uploads of distinct names are stored and a third, of a stored name, is
\* turned away.
C8_Witness ==
    /\ Len(uploads) = 2
    /\ \E id \in Of("upload") :
            /\ reqs[id].pc = "done"
            /\ reqs[id].data # Unset
            /\ reqs[id].response.status # 200
            /\ \E i \in 1..Len(uploads) :
                    /\ uploads[i].name = reqs[id].dataset_name
                    /\ uploads[i].table # reqs[id].data

\* C9: execute_pandas_query always returns: the fixed error dicts for an empty
\* query and for an evaluation that raises, and otherwise the evaluated value
\* by its shape: a list with one column-to-cell mapping per row for a table,
\* the index-to-value mapping for a single column, {"value": v} for any other v.
C9_ExecuteNormalizes ==
    \A id \in Of("query") :
        LET r == reqs[id]
            v == r.evaluated.value
            res == r.result_dict
        IN  Has(r.steps, "execute") =>
                /\ r.pandas_query = <<>> => res = ErrorDict(ErrEmptyQuery)
                /\ (r.pandas_query # <<>> /\ r.evaluated.raised) =>
                        res = ErrorDict(ErrExecution)
                /\ (r.pandas_query # <<>> /\ ~r.evaluated.raised) =>
                        /\ v.type = "DataFrame" =>
                                /\ res.type = "list"
                                /\ Len(res.elems) = Len(v.rows)
                                /\ \A i \in 1..Len(v.rows) :
                                        /\ res.elems[i].type = "dict"
                                        /\ DOMAIN res.elems[i].items =
                                               {Str(T(v.columns[j])) : j \in 1..Len(v.columns)}
                                        /\ \A j \in 1..Len(v.columns) :
                                               res.elems[i].items[Str(T(v.columns[j]))]
                                                   = v.rows[i][j]
                        /\ v.type = "Series" =>
                                /\ res.type = "dict"
                                /\ DOMAIN res.items = {v.index[k] : k \in 1..Len(v.index)}
                                /\ \A k \in 1..Len(v.index) :
                                       res.items[v.index[k]] = v.values[k]
                        /\ v.type \notin {"DataFrame", "Series"} =>
                                res = PyDict(KeyValue :> v)

\* A single column of two rows has been normalised.
C9_Witness ==
    \E id \in Of("query") :
        /\ Has(reqs[id].steps, "execute")
        /\ ~reqs[id].evaluated.raised
        /\ reqs[id].evaluated.value.type = "Series"
        /\ Len(reqs[id].evaluated.value.index) = 2
        /\ reqs[id].result_dict.type = "dict"

\* execute_pandas_query took one of its two error paths.
ErrorPath(r) == r.pandas_query = <<>> \/ r.evaluated.raised

\* C10: the result the humanizer describes is {"value": <error message>} if
\* and only if execute_pandas_query took one of its two error paths; a result
\* evaluated successfully, of any shape, reaches the prompt unchanged.
C10_ErrorCollapsedIffErrorPath ==
    \A id \in Of("query") :
        LET r == reqs[id]
        IN  (Has(r.steps, "humanize") /\ r.prompt # Unset) =>
                /\ ErrorPath(r) =>
                        r.prompt.result \in {PyDict(KeyValue :> Str(ErrEmptyQuery)),
                                             PyDict(KeyValue :> Str(ErrExecution))}
                /\ ~ErrorPath(r) => r.prompt.result = r.result_dict

=============================================================================
